---- MODULE Spec2Model ----
(***************************************************************************)
(* Model of the Wengert list of src/src/autodiff/tape.rs: a RefCell around *)
(* a Vec<Node>, the push operations that append to it and the maintenance  *)
(* operations len, is_empty, clear and zero.                               *)
(*                                                                         *)
(* Rust arrays and vectors are 0-based, TLA+ sequences 1-based: the node   *)
(* with tape index i is nodes[i + 1], and parents[0] / parents[1] of the   *)
(* source are parents[1] / parents[2] here.  Indices stored in parents and *)
(* returned by the push operations keep their 0-based Rust values.         *)
(* An f64 is modelled by a natural number naming its bit pattern; 0 is 0.0.*)
(***************************************************************************)
EXTENDS Integers, Sequences, FiniteSets

\* ---- bounds of the model ----
MaxLen == 2       \* largest tape the model grows
MaxParent == 1    \* caller-supplied parent indices range over 0..MaxParent
MaxVars == 2      \* longest slice handed to vars
MaxReaders == 1   \* most shared borrows held at once by code outside the tape

Indices == 0..MaxParent
Floats == {0, 1}   \* sample f64 bit patterns: 0.0 and a non-zero value
Pairs(S) == {<<a, b>> : a \in S, b \in S}
Slices == UNION {[1..n -> Floats] : n \in 0..MaxVars}
Operation == {"Nullary", "Unary", "Binary"}

VARIABLES
    nodes,      \* Tape.nodes: the Vec<Node> inside the RefCell
    borrow,     \* the RefCell's borrow flag: 0 unused, n > 0 readers, -1 one writer
    op,         \* the call made by the last step, with its arguments and outcome
    returned,   \* indices handed out by completed push/var calls since the tape was last empty-by-construction or cleared
    issued      \* every index handed out since construction

vars_ == <<nodes, borrow, op, returned, issued>>

\* ---- Node ----
Node(partials, parents) == [partials |-> partials, parents |-> parents]

\* ---- RefCell<Vec<Node>>::borrow / borrow_mut: succeed or panic ----
\* variant: the check of borrow_mut() where borrow() is meant
borrow_ok_exclusive(b) == b = 0
borrow_ok(b) == b >= 0
\* variant: the check of borrow() where borrow_mut() is meant
borrow_mut_ok_shared(b) == b >= 0
borrow_mut_ok(b) == b = 0

\* ---- Tape::default / Tape::new: RefCell::new(Vec::new()) ----
default == <<>>
new == <<>>

\* ---- the methods, as functions of the vector they borrow ----
len(ns) == Len(ns)
is_empty(ns) == Len(ns) = 0
\* variant: the vector is cleared in a copy, the tape's own keeps its nodes
clear_copy(ns) == ns
clear(ns) == <<>>
\* variant: only slot 0 of the partials is reset
zero_first_slot(ns) == [i \in 1..Len(ns) |-> [ns[i] EXCEPT !.partials[1] = 0]]
\* variant: the nodes are dropped instead of reset
zero_drops(ns) == <<>>
\* variant: slot 0 is moved to slot 1 instead of being reset
zero_shift(ns) == [i \in 1..Len(ns) |-> [ns[i] EXCEPT !.partials = <<0, ns[i].partials[1]>>]]
zero(ns) == [i \in 1..Len(ns) |-> [ns[i] EXCEPT !.partials = <<0, 0>>]]

\* variant: the node is inserted at the front and gets index 0
push_nullary_front(ns) ==
    [nodes |-> <<Node(<<0, 0>>, <<0, 0>>)>> \o ns, ret |-> 0]

\* variant: the self-loop is the length read after the push
push_nullary_len_after(ns) ==
    LET l == Len(ns)
    IN  [nodes |-> Append(ns, Node(<<0, 0>>, <<l + 1, l + 1>>)), ret |-> l]

push_nullary(ns) ==
    LET l == Len(ns)
    IN  [nodes |-> Append(ns, Node(<<0, 0>>, <<l, l>>)), ret |-> l]

\* variant: the length is read after the push
push_unary_len_after(ns, parent0, partial0) ==
    LET l == Len(ns)
    IN  [nodes |-> Append(ns, Node(<<partial0, 0>>, <<parent0, l>>)), ret |-> l + 1]

\* variant: the partial is stored in slot 1, next to the self-loop
push_unary_partial_slot1(ns, parent0, partial0) ==
    LET l == Len(ns)
    IN  [nodes |-> Append(ns, Node(<<0, partial0>>, <<parent0, l>>)), ret |-> l]

push_unary(ns, parent0, partial0) ==
    LET l == Len(ns)
    IN  [nodes |-> Append(ns, Node(<<partial0, 0>>, <<parent0, l>>)), ret |-> l]

\* variant: the parents are stored in the opposite order
push_binary_swapped(ns, parent0, partial0, parent1, partial1) ==
    LET l == Len(ns)
    IN  [nodes |-> Append(ns, Node(<<partial0, partial1>>, <<parent1, parent0>>)), ret |-> l]

\* variant: a parent beyond the new index is replaced by the new index
push_binary_clamped(ns, parent0, partial0, parent1, partial1) ==
    LET l == Len(ns)
        clamp(p) == IF p > l THEN l ELSE p
    IN  [nodes |-> Append(ns, Node(<<partial0, partial1>>, <<clamp(parent0), clamp(parent1)>>)),
         ret |-> l]

push_binary(ns, parent0, partial0, parent1, partial1) ==
    LET l == Len(ns)
    IN  [nodes |-> Append(ns, Node(<<partial0, partial1>>, <<parent0, parent1>>)), ret |-> l]

\* variant: the Unary arm stores slot 1 of the caller's parents
push_unary_slot1(ns, operation, parents, partials) ==
    LET l == Len(ns)
        node == CASE operation = "Nullary" -> Node(<<0, 0>>, <<l, l>>)
                  [] operation = "Unary" -> Node(<<partials[1], 0>>, <<parents[1], parents[2]>>)
                  [] operation = "Binary" -> Node(<<partials[1], partials[2]>>, <<parents[1], parents[2]>>)
    IN  [nodes |-> Append(ns, node), ret |-> l]

\* variant: the Nullary arm stores the caller's partials
push_nullary_partials(ns, operation, parents, partials) ==
    LET l == Len(ns)
        node == CASE operation = "Nullary" -> Node(partials, <<l, l>>)
                  [] operation = "Unary" -> Node(<<partials[1], 0>>, <<parents[1], l>>)
                  [] operation = "Binary" -> Node(<<partials[1], partials[2]>>, <<parents[1], parents[2]>>)
    IN  [nodes |-> Append(ns, node), ret |-> l]

\* variant: the Unary arm takes the self-loop from the length after the push
push_unary_self_after(ns, operation, parents, partials) ==
    LET l == Len(ns)
        node == CASE operation = "Nullary" -> Node(<<0, 0>>, <<l, l>>)
                  [] operation = "Unary" -> Node(<<partials[1], 0>>, <<parents[1], l + 1>>)
                  [] operation = "Binary" -> Node(<<partials[1], partials[2]>>, <<parents[1], parents[2]>>)
    IN  [nodes |-> Append(ns, node), ret |-> l]

push(ns, operation, parents, partials) ==
    LET l == Len(ns)
        node == CASE operation = "Nullary" -> Node(<<0, 0>>, <<l, l>>)
                  [] operation = "Unary" -> Node(<<partials[1], 0>>, <<parents[1], l>>)
                  [] operation = "Binary" -> Node(<<partials[1], partials[2]>>, <<parents[1], parents[2]>>)
    IN  [nodes |-> Append(ns, node), ret |-> l]

Variable(value, index) == [value |-> value, index |-> index]

\* variant: the index is the length read after the push
var_index_after(ns, value) ==
    LET r == push_nullary(ns)
    IN  [nodes |-> r.nodes, ret |-> Variable(value, r.ret + 1)]

\* variant: the partials on the tape are reset before the variable is recorded
var_zeroing(ns, value) ==
    LET r == push_nullary([i \in 1..Len(ns) |-> [ns[i] EXCEPT !.partials = <<0, 0>>]])
    IN  [nodes |-> r.nodes, ret |-> Variable(value, r.ret)]

\* variant: the value is kept in the node
var_records_value(ns, value) ==
    LET l == Len(ns)
    IN  [nodes |-> Append(ns, Node(<<value, 0>>, <<l, l>>)), ret |-> Variable(value, l)]

var(ns, value) ==
    LET r == push_nullary(ns)
    IN  [nodes |-> r.nodes, ret |-> Variable(value, r.ret)]

\* variant: the values are taken from the back of the slice
vars_rev(ns, values) ==
    LET l == Len(ns)
        n == Len(values)
    IN  [nodes |-> ns \o [i \in 1..n |-> Node(<<0, 0>>, <<l + i - 1, l + i - 1>>)],
         ret |-> [i \in 1..n |-> Variable(values[n + 1 - i], l + i - 1)]]

\* values.iter().map(|&val| self.var(val)).collect()
RECURSIVE vars(_, _)
vars(ns, values) ==
    IF values = <<>> THEN [nodes |-> ns, ret |-> <<>>]
    ELSE LET r == var(ns, Head(values))
             rest == vars(r.nodes, Tail(values))
         IN  [nodes |-> rest.nodes, ret |-> <<r.ret>> \o rest.ret]

\* ---- the record of a call ----
NoPair == <<0, 0>>
Call(name) == [name |-> name, operation |-> "-", parents |-> NoPair, partials |-> NoPair,
               values |-> <<>>, ret |-> <<>>, vret |-> <<>>, flag |-> FALSE, fault |-> FALSE]

Range(s) == {s[i] : i \in 1..Len(s)}

Init ==
    /\ \E c \in {"new", "default"} :
          /\ op = Call(c)
          /\ nodes = IF c = "new" THEN new ELSE default
    /\ borrow = 0
    /\ returned = <<>>
    /\ issued = {}

\* a panic is an unrecoverable fault: no call follows it
Running == ~op.fault

\* ---- steps: one per method of Tape; a failed borrow panics and changes nothing ----
Completed(call, result, indices) ==
    /\ nodes' = result.nodes
    /\ op' = call
    /\ returned' = returned \o indices
    /\ issued' = issued \cup Range(indices)
    /\ UNCHANGED borrow

Panicked(call) ==
    /\ op' = [call EXCEPT !.fault = TRUE]
    /\ UNCHANGED <<nodes, borrow, returned, issued>>

PushNullary ==
    /\ Running
    /\ borrow # 0 \/ Len(nodes) < MaxLen
    /\ IF borrow_mut_ok(borrow)
       THEN LET r == push_nullary(nodes)
            IN  Completed([Call("push_nullary") EXCEPT !.ret = <<r.ret>>], r, <<r.ret>>)
       ELSE Panicked(Call("push_nullary"))

PushUnary ==
    /\ Running
    /\ borrow # 0 \/ Len(nodes) < MaxLen
    /\ IF borrow_mut_ok(borrow)
       THEN \E parent0 \in Indices, partial0 \in Floats :
              LET r == push_unary(nodes, parent0, partial0)
              IN  Completed([Call("push_unary") EXCEPT !.parents = <<parent0, 0>>,
                                 !.partials = <<partial0, 0>>, !.ret = <<r.ret>>], r, <<r.ret>>)
       ELSE Panicked(Call("push_unary"))

PushBinary ==
    /\ Running
    /\ borrow # 0 \/ Len(nodes) < MaxLen
    /\ IF borrow_mut_ok(borrow)
       THEN \E parent0 \in Indices, partial0 \in Floats, parent1 \in Indices, partial1 \in Floats :
              LET r == push_binary(nodes, parent0, partial0, parent1, partial1)
              IN  Completed([Call("push_binary") EXCEPT !.parents = <<parent0, parent1>>,
                                 !.partials = <<partial0, partial1>>, !.ret = <<r.ret>>], r, <<r.ret>>)
       ELSE Panicked(Call("push_binary"))

Push ==
    /\ Running
    /\ borrow # 0 \/ Len(nodes) < MaxLen
    /\ IF borrow_mut_ok(borrow)
       THEN \E operation \in Operation, parents \in Pairs(Indices), partials \in Pairs(Floats) :
              LET r == push(nodes, operation, parents, partials)
              IN  Completed([Call("push") EXCEPT !.operation = operation, !.parents = parents,
                                 !.partials = partials, !.ret = <<r.ret>>], r, <<r.ret>>)
       ELSE Panicked(Call("push"))

Var ==
    /\ Running
    /\ borrow # 0 \/ Len(nodes) < MaxLen
    /\ IF borrow_mut_ok(borrow)
       THEN \E value \in Floats :
              LET r == var(nodes, value)
              IN  Completed([Call("var") EXCEPT !.values = <<value>>, !.vret = <<r.ret>>,
                                 !.ret = <<r.ret.index>>], r, <<r.ret.index>>)
       ELSE Panicked(Call("var"))

\* vars borrows once per element, inside var: an empty slice never borrows,
\* every other slice panics at its first element when the cell is in use
VarsCompleted(values) ==
    /\ Len(nodes) + Len(values) <= MaxLen
    /\ LET r == vars(nodes, values)
           indices == [i \in 1..Len(r.ret) |-> r.ret[i].index]
       IN  Completed([Call("vars") EXCEPT !.values = values, !.vret = r.ret,
                          !.ret = indices], r, indices)

Vars ==
    /\ Running
    /\ IF borrow_mut_ok(borrow)
       THEN \E values \in Slices : VarsCompleted(values)
       ELSE \/ VarsCompleted(<<>>)
            \/ Slices \ {<<>>} # {} /\ Panicked(Call("vars"))

LenStep ==
    /\ Running
    /\ IF borrow_ok(borrow)
       THEN op' = [Call("len") EXCEPT !.ret = <<len(nodes)>>]
       ELSE op' = [Call("len") EXCEPT !.fault = TRUE]
    /\ UNCHANGED <<nodes, borrow, returned, issued>>

IsEmpty ==
    /\ Running
    /\ IF borrow_ok(borrow)
       THEN op' = [Call("is_empty") EXCEPT !.flag = is_empty(nodes)]
       ELSE op' = [Call("is_empty") EXCEPT !.fault = TRUE]
    /\ UNCHANGED <<nodes, borrow, returned, issued>>

Clear ==
    /\ Running
    /\ IF borrow_mut_ok(borrow)
       THEN /\ nodes' = clear(nodes)
            /\ op' = Call("clear")
            /\ returned' = <<>>
            /\ UNCHANGED <<borrow, issued>>
       ELSE Panicked(Call("clear"))

Zero ==
    /\ Running
    /\ IF borrow_mut_ok(borrow)
       THEN /\ nodes' = zero(nodes)
            /\ op' = Call("zero")
            /\ UNCHANGED <<borrow, returned, issued>>
       ELSE Panicked(Call("zero"))

\* ---- code outside the tape holding a guard on the public field `nodes` ----
\* (the guard is held, the vector behind it is not written through it)
ExtBorrow ==
    /\ Running
    /\ borrow_ok(borrow) /\ borrow < MaxReaders
    /\ borrow' = borrow + 1
    /\ op' = Call("nodes.borrow")
    /\ UNCHANGED <<nodes, returned, issued>>

ExtBorrowMut ==
    /\ Running
    /\ borrow_mut_ok(borrow)
    /\ borrow' = -1
    /\ op' = Call("nodes.borrow_mut")
    /\ UNCHANGED <<nodes, returned, issued>>

ExtDrop ==
    /\ Running
    /\ borrow # 0
    /\ borrow' = IF borrow < 0 THEN 0 ELSE borrow - 1
    /\ op' = Call("drop")
    /\ UNCHANGED <<nodes, returned, issued>>

TapeCall ==
    \/ PushNullary
    \/ PushUnary
    \/ PushBinary
    \/ Push
    \/ Var
    \/ Vars
    \/ LenStep
    \/ IsEmpty
    \/ Clear
    \/ Zero

\* calls of the tape's own methods, one after the other; a panic is an
\* unrecoverable fault: no call follows it
Next == TapeCall

Spec == Init /\ [][Next]_vars_

\* the same calls made while code outside the tape may hold a guard on `nodes`
NextBorrow ==
    \/ TapeCall
    \/ ExtBorrow
    \/ ExtBorrowMut
    \/ ExtDrop

SpecBorrow == Init /\ [][NextBorrow]_vars_

TypeOK ==
    /\ nodes \in Seq([partials : Pairs(Floats), parents : Pairs(0..(MaxLen + MaxParent))])
    /\ Len(nodes) <= MaxLen
    /\ borrow \in -1..MaxReaders

\* ---- vocabulary of the properties ----
Pushes == {"push_nullary", "push_unary", "push_binary", "push", "var", "vars"}
Mutating == Pushes \cup {"zero", "clear"}
Done(c, names) == c.name \in names /\ ~c.fault
\* tape index i is position i + 1 of the sequence
At(ns, i) == ns[i + 1]
Acyclic(ns) == \A i \in 0..(Len(ns) - 1) : At(ns, i).parents[1] <= i /\ At(ns, i).parents[2] <= i

\* C1: the pushes completed since the tape was last empty return 0, 1, 2, ...
\* in order, the tape holds exactly as many nodes as pushes completed, and len()
\* reports that number.
MonotonicIndexing ==
    /\ \A k \in 1..Len(returned) : returned[k] = k - 1
    /\ len(nodes) = Len(returned)
    /\ Done(op, {"len"}) => op.ret = <<Len(returned)>>

MonotonicIndexingWitness ==
    /\ returned = <<0, 1>>
    /\ Done(op, {"push_unary"})
    /\ At(nodes, 0).parents = <<1, 1>>

\* C2 as stated: every node at index i has both parents <= i, whatever the
\* calls and their arguments were.
Acyclicity == Acyclic(nodes)

\* C2 amended: a step keeps the tape acyclic whenever the parent indices the
\* caller supplied, and the called operation stores, are <= the index of the
\* node being pushed; the slots the tape fills itself hold that index.
SuppliedParentsOK(c, index) ==
    CASE c.name = "push_unary" -> c.parents[1] <= index
      [] c.name = "push_binary" -> c.parents[1] <= index /\ c.parents[2] <= index
      [] c.name = "push" /\ c.operation = "Unary" -> c.parents[1] <= index
      [] c.name = "push" /\ c.operation = "Binary" -> c.parents[1] <= index /\ c.parents[2] <= index
      [] OTHER -> TRUE

AcyclicityUnderContract ==
    [][(Acyclic(nodes) /\ ~op'.fault /\ SuppliedParentsOK(op', Len(nodes))) => Acyclic(nodes')]_vars_

AcyclicityWitness ==
    /\ Done(op, {"push"})
    /\ op.operation = "Unary"
    /\ op.parents = <<0, 1>>
    /\ op.ret = <<0>>
    /\ Acyclic(nodes)

\* C3: right after a push that returned s, the node at s has the shape of its
\* arity: [s, s] / [0, 0] for nullary, [p, s] / [d, 0] for unary, [p0, p1] /
\* [d0, d1] for binary.
ArityShape ==
    /\ Done(op, {"push_nullary"}) =>
          At(nodes, op.ret[1]) = [parents |-> <<op.ret[1], op.ret[1]>>, partials |-> <<0, 0>>]
    /\ Done(op, {"push_unary"}) =>
          At(nodes, op.ret[1]) = [parents |-> <<op.parents[1], op.ret[1]>>,
                                  partials |-> <<op.partials[1], 0>>]
    /\ Done(op, {"push_binary"}) =>
          At(nodes, op.ret[1]) = [parents |-> op.parents, partials |-> op.partials]

ArityShapeWitness ==
    /\ Done(op, {"push_binary"})
    /\ op.parents = <<1, 0>>
    /\ op.partials = <<0, 1>>
    /\ op.ret = <<1>>

\* C4: push with an arity tag does to the tape, and returns, what the push
\* operation of that arity does: Nullary ignores both arrays, Unary honours
\* slot 0 of each, Binary honours both slots.
Dispatched(ns, c) ==
    CASE c.operation = "Nullary" -> push_nullary(ns)
      [] c.operation = "Unary" -> push_unary(ns, c.parents[1], c.partials[1])
      [] c.operation = "Binary" -> push_binary(ns, c.parents[1], c.partials[1],
                                                c.parents[2], c.partials[2])

DispatchEquivalence ==
    [][Done(op', {"push"}) =>
          /\ nodes' = Dispatched(nodes, op').nodes
          /\ op'.ret = <<Dispatched(nodes, op').ret>>]_vars_

DispatchEquivalenceWitness ==
    /\ Done(op, {"push"})
    /\ op.operation = "Unary"
    /\ op.parents = <<0, 1>>
    /\ op.partials = <<1, 1>>
    /\ op.ret = <<1>>
    /\ At(nodes, 1) = [parents |-> <<0, 1>>, partials |-> <<1, 0>>]

\* C5 as stated: the tape is empty after new, default and clear; every
\* completed push, var or vars call leaves it populated, with one node more (N
\* more for vars of N values); zero keeps the node count, and changes nothing
\* on an empty tape.
LifecycleStep(populates) ==
    /\ Done(op', {"clear"}) => Len(nodes') = 0
    /\ Done(op', Pushes) => Len(nodes') = Len(nodes) + Len(op'.ret)
    /\ Done(op', Pushes \ {"vars"}) => Len(op'.ret) = 1
    /\ Done(op', {"vars"}) => Len(op'.ret) = Len(op'.values)
    /\ Done(op', populates) => Len(nodes') > 0
    /\ Done(op', {"zero"}) => Len(nodes') = Len(nodes) /\ (Len(nodes) = 0 => nodes' = nodes)

Lifecycle ==
    /\ [](op.name \in {"new", "default"} => Len(nodes) = 0)
    /\ [][LifecycleStep(Pushes)]_vars_

\* C5 amended: as stated, except that vars leaves the tape populated only when
\* it is given at least one value or the tape was populated already: vars of
\* no values adds no node and leaves an empty tape empty.
LifecycleNonEmptyVars ==
    /\ [](op.name \in {"new", "default"} => Len(nodes) = 0)
    /\ [][/\ LifecycleStep(Pushes \ {"vars"})
          /\ Done(op', {"vars"}) => (Len(nodes') > 0 <=> (op'.values # <<>> \/ Len(nodes) > 0))]_vars_

LifecycleWitness ==
    /\ Done(op, {"vars"})
    /\ op.values = <<>>
    /\ Len(nodes) = 0
    /\ issued = {0, 1}

\* C6: zero keeps the number of nodes and every node's parents, and leaves
\* both partials of every node 0.0.
ZeroPreservesTopology ==
    [][Done(op', {"zero"}) =>
          /\ Len(nodes') = Len(nodes)
          /\ \A i \in 1..Len(nodes) :
                /\ nodes'[i].parents = nodes[i].parents
                /\ nodes'[i].partials = <<0, 0>>]_vars_

ZeroPreservesTopologyWitness ==
    /\ Done(op, {"zero"})
    /\ Len(nodes) = 2
    /\ At(nodes, 0).parents = <<1, 0>>
    /\ At(nodes, 1).parents = <<0, 1>>

\* C7: after clear the tape has length 0 and is empty, len and is_empty
\* called next report so, and push_nullary called next returns 0 and creates
\* the node with parents [0, 0].
ClearResetsFully ==
    /\ [](Done(op, {"clear"}) => len(nodes) = 0 /\ is_empty(nodes))
    /\ [][Done(op, {"clear"}) =>
            /\ Done(op', {"len"}) => op'.ret = <<0>>
            /\ Done(op', {"is_empty"}) => op'.flag
            /\ Done(op', {"push_nullary"}) =>
                  op'.ret = <<0>> /\ Len(nodes') = 1 /\ At(nodes', 0).parents = <<0, 0>>]_vars_

ClearResetsFullyWitness ==
    /\ Done(op, {"clear"})
    /\ issued = {0, 1}

\* C8: vars on a tape of length L returns, for the i-th value (0-based), the
\* Variable with that value and index L + i, and appends for it the nullary
\* node of index L + i: what var does for one value, N times in input order.
NullaryAt(i) == [parents |-> <<i, i>>, partials |-> <<0, 0>>]

BatchVarsOrdering ==
    [][/\ Done(op', {"var"}) =>
            /\ op'.vret = <<[value |-> op'.values[1], index |-> Len(nodes)]>>
            /\ nodes' = Append(nodes, NullaryAt(Len(nodes)))
       /\ Done(op', {"vars"}) =>
            /\ Len(op'.vret) = Len(op'.values)
            /\ \A i \in 1..Len(op'.values) :
                  op'.vret[i] = [value |-> op'.values[i], index |-> Len(nodes) + i - 1]
            /\ nodes' = nodes \o [i \in 1..Len(op'.values) |-> NullaryAt(Len(nodes) + i - 1)]]_vars_

BatchVarsOrderingWitness ==
    /\ Done(op, {"vars"})
    /\ op.values = <<1, 0>>
    /\ op.ret = <<0, 1>>

\* C9 as stated: a mutating operation attempted while a shared or mutable
\* access to the node sequence is outstanding faults and leaves the node
\* sequence as it was.
CheckedBorrowFailFast ==
    [][(borrow # 0 /\ op'.name \in Mutating) => (op'.fault /\ nodes' = nodes)]_vars_

\* C9 amended: as stated for every mutating operation that accesses the node
\* sequence; vars of no values makes no access, so it completes without a
\* fault, and it too leaves the node sequence as it was.
CheckedBorrowFailFastNonEmpty ==
    [][(borrow # 0 /\ op'.name \in Mutating) =>
          /\ nodes' = nodes
          /\ op'.fault \/ (op'.name = "vars" /\ op'.values = <<>> /\ op'.vret = <<>>)]_vars_

CheckedBorrowWitness ==
    /\ op.name = "push_binary"
    /\ op.fault
    /\ borrow = 1
    /\ Len(nodes) = 1

\* C10 as stated: an index returned by a push or var call is never returned
\* by a later one, and the node count changes only by growing by one per push
\* or by dropping to 0 through clear.
CountStep ==
    Len(nodes') # Len(nodes) =>
        \/ Done(op', Pushes) /\ Len(nodes') = Len(nodes) + Len(op'.ret)
        \/ Done(op', {"clear"}) /\ Len(nodes') = 0

IndexPermanence ==
    [][/\ Done(op', Pushes) => Range(op'.ret) \cap issued = {}
       /\ CountStep]_vars_

\* C10 amended: an index returned by a push or var call is not returned again
\* by a later one until the tape is cleared (after clear indices start again
\* at 0); until then the nodes keep their positions and parents; the node
\* count changes only by growing by one per push or by dropping to 0 through
\* clear.
IndexPermanenceUntilClear ==
    [][/\ Done(op', Pushes) =>
            /\ Range(op'.ret) \cap Range(returned) = {}
            /\ Cardinality(Range(op'.ret)) = Len(op'.ret)
       /\ ~Done(op', {"clear"}) =>
            /\ Len(nodes') >= Len(nodes)
            /\ \A i \in 1..Len(nodes) : nodes'[i].parents = nodes[i].parents
       /\ CountStep]_vars_

IndexPermanenceWitness ==
    /\ Done(op, {"var"})
    /\ returned = <<0>>
    /\ issued = {0, 1}
\* the indices var and vars hand out: valid, denoting the nullary node the
\* call created, and carried by no other result since the last clear
VarIndicesFresh ==
    Done(op', {"var", "vars"}) =>
        /\ Range(op'.ret) \subseteq Range(returned')
        /\ \A k \in 1..Len(op'.ret) :
              /\ op'.ret[k] < len(nodes')
              /\ At(nodes', op'.ret[k]) = NullaryAt(op'.ret[k])
              /\ op'.ret[k] \notin Range(returned)
              /\ \A j \in 1..Len(op'.ret) : j # k => op'.ret[j] # op'.ret[k]

\* a push_binary whose parents are indices handed out since the last clear
BinaryOnIssued ==
    (Done(op', {"push_binary"}) /\ Range(op'.parents) \subseteq Range(returned)) =>
        /\ At(nodes', op'.ret[1]).parents[1] < op'.ret[1]
        /\ At(nodes', op'.ret[1]).parents[2] < op'.ret[1]

\* C11 as stated: every index of var/vars is valid, unique since the last
\* clear and usable as a parent: a following push_unary(i, d) or
\* push_binary(i, d0, j, d1) with such indices produces a node whose parents
\* are both strictly smaller than its own index.
VarIndexContract ==
    [][/\ VarIndicesFresh
       /\ BinaryOnIssued
       /\ (Done(op', {"push_unary"}) /\ op'.parents[1] \in Range(returned)) =>
             /\ At(nodes', op'.ret[1]).parents[1] < op'.ret[1]
             /\ At(nodes', op'.ret[1]).parents[2] < op'.ret[1]]_vars_

\* C11 amended: as stated, except that the node of push_unary(i, d) has only
\* its supplied parent (slot 0) strictly smaller than its own index; its slot 1
\* is the self-loop and equals that index.
VarIndexContractSupplied ==
    [][/\ VarIndicesFresh
       /\ BinaryOnIssued
       /\ (Done(op', {"push_unary"}) /\ op'.parents[1] \in Range(returned)) =>
             /\ At(nodes', op'.ret[1]).parents[1] < op'.ret[1]
             /\ At(nodes', op'.ret[1]).parents[2] = op'.ret[1]]_vars_

VarIndexContractWitness ==
    /\ Done(op, {"push_unary"})
    /\ op.parents[1] = 0
    /\ op.ret = <<1>>
    /\ At(nodes, 0) = NullaryAt(0)
    /\ At(nodes, 1).parents = <<0, 1>>

\* ---- validity of the parent slots ----
ValidParents(ns) ==
    \A i \in 0..(Len(ns) - 1) : At(ns, i).parents[1] < Len(ns) /\ At(ns, i).parents[2] < Len(ns)

\* C12 as stated: in every reachable state both parent slots of every node
\* are smaller than len().
ParentSlotsValid == ValidParents(nodes)

\* C12 amended: the slots the tape fills itself are always valid indices, and
\* a step keeps every slot valid whenever the parent indices the caller
\* supplies, and the operation stores, are <= the index of the node being
\* pushed; a larger supplied index is stored as given.
ParentSlotsValidUnderContract ==
    [][/\ Done(op', {"push_nullary", "var", "vars"}) =>
             \A k \in 1..Len(op'.ret) :
                /\ At(nodes', op'.ret[k]).parents[1] < Len(nodes')
                /\ At(nodes', op'.ret[k]).parents[2] < Len(nodes')
       /\ Done(op', {"push_unary"}) => At(nodes', op'.ret[1]).parents[2] < Len(nodes')
       /\ (ValidParents(nodes) /\ ~op'.fault /\ SuppliedParentsOK(op', Len(nodes)))
             => ValidParents(nodes')]_vars_

ParentSlotsValidWitness ==
    /\ Done(op, {"push_binary"})
    /\ op.parents = <<1, 1>>
    /\ op.ret = <<1>>
    /\ ValidParents(nodes)
\* C13: with no other access to the tape outstanding, push, push_nullary,
\* push_unary and push_binary complete for every argument value, append one
\* node and store in it the parent indices and partials of the slots their
\* arity uses exactly as supplied, also when a parent index is greater than
\* the new node's index or beyond the tape's length.
StoredVerbatim(c, node) ==
    CASE c.name = "push_unary" \/ (c.name = "push" /\ c.operation = "Unary") ->
            node.parents[1] = c.parents[1] /\ node.partials[1] = c.partials[1]
      [] c.name = "push_binary" \/ (c.name = "push" /\ c.operation = "Binary") ->
            node.parents = c.parents /\ node.partials = c.partials
      [] OTHER -> TRUE

Kept == IF Len(nodes') < Len(nodes) THEN 1..Len(nodes') ELSE 1..Len(nodes)

NodesImmutable ==
    [][/\ Done(op', Pushes) =>
             Len(nodes') >= Len(nodes) /\ \A i \in 1..Len(nodes) : nodes'[i] = nodes[i]
       /\ op'.name \in {"len", "is_empty"} => nodes' = nodes
       /\ (\E i \in Kept : nodes'[i].partials # nodes[i].partials) => Done(op', {"zero"})
       /\ \A i \in Kept : nodes'[i].parents = nodes[i].parents]_vars_

NodesImmutableWitness ==
    /\ Done(op, {"var"})
    /\ op.ret = <<1>>
    /\ At(nodes, 0) = [parents |-> <<1, 0>>, partials |-> <<1, 1>>]

\* ---- the self-loop and its partial ----
SentinelZero(ns) ==
    \A i \in 0..(Len(ns) - 1) : \A s \in 1..2 :
        At(ns, i).parents[s] = i => At(ns, i).partials[s] = 0

\* C15 as stated: in every reachable state a slot whose parent is the node's
\* own index has partial 0.0.
SelfLoopZeroPartial == SentinelZero(nodes)

\* C15 amended: the slots the tape fills itself hold the node's own index
\* together with partial 0.0, and a step keeps the property for every slot
\* whenever no caller-supplied parent index that the operation stores equals
\* the index of the node being pushed; a supplied parent equal to that index
\* is stored with the supplied partial.
SuppliedNotSelf(c, index) ==
    CASE c.name = "push_unary" -> c.parents[1] # index
      [] c.name = "push_binary" -> c.parents[1] # index /\ c.parents[2] # index
      [] c.name = "push" /\ c.operation = "Unary" -> c.parents[1] # index
      [] c.name = "push" /\ c.operation = "Binary" -> c.parents[1] # index /\ c.parents[2] # index
      [] OTHER -> TRUE

SelfLoopZeroPartialSynthesised ==
    [][/\ Done(op', {"push_nullary", "var", "vars"}) =>
             \A k \in 1..Len(op'.ret) : At(nodes', op'.ret[k]) = NullaryAt(op'.ret[k])
       /\ Done(op', {"push_unary"}) =>
             /\ At(nodes', op'.ret[1]).parents[2] = op'.ret[1]
             /\ At(nodes', op'.ret[1]).partials[2] = 0
       /\ (SentinelZero(nodes) /\ ~op'.fault /\ SuppliedNotSelf(op', Len(nodes)))
             => SentinelZero(nodes')]_vars_

SelfLoopZeroPartialWitness ==
    /\ Done(op, {"push_unary"})
    /\ op.parents[1] = 0
    /\ op.partials[1] = 1
    /\ op.ret = <<1>>
    /\ SentinelZero(nodes)
\* C16: len and is_empty complete and report the node count / emptiness while
\* only shared accesses (any number, none included) are outstanding, and fault
\* while a mutable access is outstanding; every call of a tape method leaves
\* the borrow state as it found it, so completed tape calls leave no access
\* outstanding.
TapeCalls == Mutating \cup {"len", "is_empty"}

SharedReads ==
    [][/\ op'.name = "len" =>
             IF borrow >= 0 THEN ~op'.fault /\ op'.ret = <<Len(nodes)>> ELSE op'.fault
       /\ op'.name = "is_empty" =>
             IF borrow >= 0 THEN ~op'.fault /\ (op'.flag <=> Len(nodes) = 0) ELSE op'.fault
       /\ op'.name \in TapeCalls => borrow' = borrow]_vars_

SharedReadsWitness ==
    /\ Done(op, {"len"})
    /\ op.ret = <<1>>
    /\ borrow = MaxReaders

\* C17: the state after zero is a fixed point of zero (a second zero changes
\* nothing), and zero changes nothing on a tape that holds only nullary nodes.
AllNullary(ns) == \A i \in 0..(Len(ns) - 1) : At(ns, i) = NullaryAt(i)

ZeroIdempotent ==
    /\ Done(op, {"zero"}) => zero(nodes) = nodes
    /\ AllNullary(nodes) => zero(nodes) = nodes

ZeroIdempotentWitness ==
    /\ Done(op, {"zero"})
    /\ Len(nodes) = 2
    /\ At(nodes, 0).parents = <<0, 1>>
    /\ At(nodes, 1).parents = <<0, 0>>

\* C18: a nullary push or var stores the position of its node in both parent
\* slots, and a unary push in slot 1; until the tape is cleared every node
\* keeps its position and its parents, and clear removes every node, so after
\* re-recording the stored self-index is again the position.  By induction
\* over the steps the stored self-index equals the position in every state.
NullaryCall(c) == Done(c, {"push_nullary", "var", "vars"}) \/ (Done(c, {"push"}) /\ c.operation = "Nullary")
UnaryCall(c) == Done(c, {"push_unary"}) \/ (Done(c, {"push"}) /\ c.operation = "Unary")

StoredSelfIndex ==
    [][/\ NullaryCall(op') =>
             \A k \in 1..Len(op'.ret) :
                /\ op'.ret[k] = Len(nodes) + k - 1
                /\ nodes'[Len(nodes) + k].parents = <<Len(nodes) + k - 1, Len(nodes) + k - 1>>
       /\ UnaryCall(op') =>
             /\ op'.ret = <<Len(nodes)>>
             /\ nodes'[Len(nodes) + 1].parents[2] = Len(nodes)
       /\ Done(op', {"clear"}) => nodes' = <<>>
       /\ ~Done(op', {"clear"}) =>
             /\ Len(nodes') >= Len(nodes)
             /\ \A i \in 1..Len(nodes) : nodes'[i].parents = nodes[i].parents]_vars_

StoredSelfIndexWitness ==
    /\ UnaryCall(op)
    /\ op.name = "push"
    /\ op.ret = <<0>>
    /\ issued = {0, 1}
    /\ At(nodes, 0).parents = <<1, 0>>

\* C19: what var and vars do to the tape, and the indices they return, do not
\* depend on the values: var(v) appends the node and returns the index of
\* push_nullary() for every v, and vars gives the same tape and indices for
\* every slice of the same length.  The tape after a sequence of operations
\* is therefore the same for every choice of the values.
IndicesOf(variables) == [i \in 1..Len(variables) |-> variables[i].index]

ValuesNotRecorded ==
    [][/\ Done(op', {"var"}) =>
             /\ nodes' = push_nullary(nodes).nodes
             /\ op'.ret = <<push_nullary(nodes).ret>>
             /\ \A w \in Floats :
                   var(nodes, w).nodes = nodes' /\ var(nodes, w).ret.index = op'.ret[1]
       /\ Done(op', {"vars"}) =>
             \A w \in Slices : Len(w) = Len(op'.values) =>
                   vars(nodes, w).nodes = nodes' /\ IndicesOf(vars(nodes, w).ret) = op'.ret]_vars_

ValuesNotRecordedWitness ==
    /\ Done(op, {"vars"})
    /\ op.values = <<0, 1>>
    /\ nodes = <<NullaryAt(0), NullaryAt(1)>>
====
